---- MODULE Spec2Model ----
(***************************************************************************)
(* The Session & Membership Synchronizer of PuntosClub                     *)
(* (src/contexts/AuthContext.tsx, AuthProvider) as a state machine.        *)
(*                                                                         *)
(* Every asynchronous function is a task that is suspended at each await;  *)
(* one action is the code that runs between two awaits.  The auth          *)
(* subsystem, the profile store, the membership store and the realtime     *)
(* transport are the environment.  The query of the membership list is     *)
(* served from the table as it is when the query is issued and its answer  *)
(* is handled later; the lookup of joinOrganization is served from the     *)
(* table as it is when it answers.  Every request may fail the ways the    *)
(* calling code distinguishes (an error result, a rejected promise, a      *)
(* timer firing first); supabase.auth.signOut() always answers.            *)
(* The variable last names the step taken last; it is not program state.   *)
(***************************************************************************)
EXTENDS Integers, Sequences, FiniteSets, Bags, TLC

NULL == "null"

(* ---------------------------------------------------------------- bounds *)
MaxFB == 2          \* fetchBeneficiary tasks in flight
MaxFuo == 2         \* fetchUserOrganizations tasks in flight
MaxCalls == 2       \* calls of the user and changes the backend makes by itself

(* ------------------------------------------------------------ the stores *)
Users == {"u1", "u2", "u3"}
Orgs == {"o1", "o2"}
JoinOrgs == {"o1"}     \* the organizations joinOrganization is called with
EndUsers == {"u1", "u4"}
NewUsers == {"u5", "u6"}   \* the identities signUp is called for
FinalUser == "final_user"

\* The beneficiary table: u1 and u4 are end users, u2's row carries another
\* role, u3 has no row.
BeneficiaryTable ==
  { [id |-> "b1", auth_user_id |-> "u1", role |-> FinalUser],
    [id |-> "b2", auth_user_id |-> "u2", role |-> "org_admin"],
    [id |-> "b4", auth_user_id |-> "u4", role |-> FinalUser] }

ProfileIds == {r.id : r \in BeneficiaryTable}

NoBeneficiary == [id |-> NULL, auth_user_id |-> NULL, role |-> NULL]

\* no signUp under way, no identity created, no profile row for it
NoSignUp == [pc |-> "idle", uid |-> NULL, identity |-> FALSE, profile |-> FALSE]

\* .from('beneficiary').select(..).eq('auth_user_id', id).single(): the row, or
\* an error when the rows matching are not exactly one.
QueryBeneficiary(authUserId) ==
  LET m == {r \in BeneficiaryTable : r.auth_user_id = authUserId}
  IN  IF Cardinality(m) = 1
      THEN [data |-> CHOOSE r \in m : TRUE, error |-> FALSE]
      ELSE [data |-> NoBeneficiary, error |-> TRUE]

\* The same request failing in transport: supabase-js returns it as an error.
QueryFault == [data |-> NoBeneficiary, error |-> TRUE]

Catalog == <<"o1", "o2">>

VARIABLES
  authSession,              \* the session the auth subsystem holds (a user id)
  authEvents,               \* notifications queued for the onAuthStateChange listener
  rows,                     \* table beneficiary_organization; a row's id is its index
  pushEvents,               \* postgres_changes events queued for the live channel
  session, user, beneficiary, userOrganizations, allOrganizations,
  loading, organizationsLoading,
  organizationsChannelRef,  \* the profile id the referenced channel is scoped to
  channelStatus,            \* the status last reported to that channel's callback
  liveChannels,             \* per profile id, the channels opened and not removed
  initPc,                   \* initializeAuth
  fb,                       \* fetchBeneficiary tasks (a bag)
  si,                       \* the signIn task
  so,                       \* the signOut task
  joins,                    \* joinOrganization tasks (a bag)
  fuo,                      \* fetchUserOrganizations tasks (a bag)
  fao,                      \* fetchAllOrganizations tasks in flight
  unf,                      \* the handleUnfollow task
  su,                       \* the signUp task, the identity and the profile row it leads to
  used,                     \* calls made so far: all, and those the claims count
  last                      \* the step taken last

vars == <<authSession, authEvents, rows, pushEvents, session, user, beneficiary,
          userOrganizations, allOrganizations, loading, organizationsLoading,
          organizationsChannelRef, channelStatus, liveChannels, initPc, fb, si,
          so, joins, fuo,
          fao, unf, su, used, last>>

authVars == <<authSession, authEvents>>
storeVars == <<rows>>
effectVars == <<organizationsChannelRef, channelStatus, liveChannels, fuo, fao,
                organizationsLoading, pushEvents>>

Label(op, arg, res) == [op |-> op, arg |-> arg, res |-> res]

\* a step that completes no operation of the synchronizer
Step == Label("step", NULL, NULL)

(* ------------------------------------------------------ membership store *)
\* A row of beneficiary_organization as a query or a push payload carries it.
Membership(tbl, i) ==
  [id |-> i, beneficiary_id |-> tbl[i].beneficiary_id,
   organization_id |-> tbl[i].organization_id,
   available_points |-> tbl[i].available_points,
   total_points_earned |-> tbl[i].total_points_earned,
   total_points_redeemed |-> tbl[i].total_points_redeemed,
   is_active |-> tbl[i].is_active,
   updated_at |-> tbl[i].updated_at]

ActiveFilterMut(tbl, i, beneficiaryId) ==
  /\ ~tbl[i].deleted
  /\ tbl[i].beneficiary_id = beneficiaryId

\* lines 50-51: .eq('beneficiary_id', beneficiaryId).eq('is_active', true)
ActiveFilter(tbl, i, beneficiaryId) ==
  /\ ~tbl[i].deleted
  /\ tbl[i].beneficiary_id = beneficiaryId
  /\ tbl[i].is_active

RECURSIVE ActiveFrom(_, _, _)
ActiveFrom(tbl, i, beneficiaryId) ==
  IF i > Len(tbl) THEN <<>>
  ELSE (IF ActiveFilter(tbl, i, beneficiaryId) THEN <<Membership(tbl, i)>> ELSE <<>>)
       \o ActiveFrom(tbl, i + 1, beneficiaryId)

QueryUserOrganizations(tbl, beneficiaryId) == ActiveFrom(tbl, 1, beneficiaryId)

\* lines 340-345: .eq('beneficiary_id', b).eq('organization_id', o).single():
\* the id of the row, or 0 (no data) when the rows matching are not exactly one.
Lookup(tbl, beneficiaryId, organizationId) ==
  LET m == {i \in 1..Len(tbl) : /\ ~tbl[i].deleted
                                /\ tbl[i].beneficiary_id = beneficiaryId
                                /\ tbl[i].organization_id = organizationId}
  IN  IF Cardinality(m) = 1 THEN CHOOSE i \in m : TRUE ELSE 0

\* lines 364-371: the row joinOrganization inserts
NewMembership(beneficiaryId, organizationId) ==
  [beneficiary_id |-> beneficiaryId, organization_id |-> organizationId,
   available_points |-> 0, total_points_earned |-> 0,
   total_points_redeemed |-> 0, is_active |-> TRUE, updated_at |-> 0,
   deleted |-> FALSE]

ReactivateMut(tbl, id) ==
  IF tbl[id].deleted THEN tbl ELSE
  [tbl EXCEPT ![id].is_active = TRUE, ![id].available_points = 0,
              ![id].total_points_earned = 0, ![id].total_points_redeemed = 0]

\* lines 352-355: .update({ is_active: true }).eq('id', id)
Reactivate(tbl, id) ==
  IF tbl[id].deleted THEN tbl ELSE [tbl EXCEPT ![id].is_active = TRUE]

\* handleUnfollow: .update({ is_active: false }).eq('id', id)
Deactivate(tbl, id) ==
  IF tbl[id].deleted THEN tbl ELSE [tbl EXCEPT ![id].is_active = FALSE]

\* The realtime transport: a change of a row is sent to every live channel
\* filtered to the row's beneficiary_id; an update that matched no row changes
\* nothing and sends nothing.
Emit(q, live, tbl, i, eventType) ==
  IF eventType = "UPDATE" /\ tbl[i].deleted THEN q ELSE
  q \o [k \in 1..live[tbl[i].beneficiary_id] |->
          [ch |-> tbl[i].beneficiary_id, eventType |-> eventType,
           new |-> Membership(tbl, i)]]

(* ------------------------------------------------- the beneficiary effect *)
\* supabase.removeChannel(channel)
RemoveChannel(live, ch) == [live EXCEPT ![ch] = @ - 1]

\* fetchUserOrganizations(beneficiaryId) up to its await (lines 34-51)
FuoTask(tbl, beneficiaryId, origin, org, existing) ==
  [bid |-> beneficiaryId, data |-> QueryUserOrganizations(tbl, beneficiaryId),
   origin |-> origin, org |-> org, existing |-> existing]

\* fetchAllOrganizations() up to its await (lines 64-69)
StartFetchAll == fao' = fao + 1

EffectCleanupLiveMut == liveChannels

\* The effect of lines 157-218 runs when beneficiary?.id changes: the cleanup the
\* previous run returned, then the new run.
EffectCleanupLive ==
  IF beneficiary.id # NULL /\ organizationsChannelRef # NULL
  THEN RemoveChannel(liveChannels, organizationsChannelRef)
  ELSE liveChannels

EffectCleanupRef ==
  IF beneficiary.id # NULL THEN NULL ELSE organizationsChannelRef

DropEvents(q, live) == SelectSeq(q, LAMBDA e : live[e.ch] > 0)

RunEffectMut(newId) ==
  IF newId = beneficiary.id \/ newId = NULL
  THEN UNCHANGED effectVars
  ELSE IF newId = NULL
       THEN /\ liveChannels' = EffectCleanupLive
            /\ organizationsChannelRef' = EffectCleanupRef
            /\ channelStatus' = IF EffectCleanupRef = NULL THEN "none" ELSE channelStatus
            /\ pushEvents' = DropEvents(pushEvents, EffectCleanupLive)
            /\ UNCHANGED <<fuo, fao, organizationsLoading>>
       ELSE /\ BagCardinality(fuo) < MaxFuo
            /\ fuo' = fuo (+) SetToBag({FuoTask(rows, newId, "effect", NULL, 0)})
            /\ organizationsLoading' = TRUE
            /\ StartFetchAll
            /\ liveChannels' = [EffectCleanupLive EXCEPT ![newId] = @ + 1]
            /\ organizationsChannelRef' = newId
            /\ channelStatus' = "SUBSCRIBING"
            /\ pushEvents' = DropEvents(pushEvents, EffectCleanupLive)

RunEffect(newId) ==
  IF newId = beneficiary.id
  THEN UNCHANGED effectVars
  ELSE IF newId = NULL
       THEN /\ liveChannels' = EffectCleanupLive
            /\ organizationsChannelRef' = EffectCleanupRef
            /\ channelStatus' = IF EffectCleanupRef = NULL THEN "none" ELSE channelStatus
            /\ pushEvents' = DropEvents(pushEvents, EffectCleanupLive)
            /\ UNCHANGED <<fuo, fao, organizationsLoading>>
       ELSE /\ BagCardinality(fuo) < MaxFuo
            /\ fuo' = fuo (+) SetToBag({FuoTask(rows, newId, "effect", NULL, 0)})
            /\ organizationsLoading' = TRUE
            /\ StartFetchAll
            /\ liveChannels' = [EffectCleanupLive EXCEPT ![newId] = @ + 1]
            /\ organizationsChannelRef' = newId
            /\ channelStatus' = "SUBSCRIBING"
            /\ pushEvents' = DropEvents(pushEvents, EffectCleanupLive)

SetBeneficiary(b) ==
  /\ beneficiary' = b
  /\ RunEffect(b.id)

(* --------------------------------------------- the subscribe callback *)
\* the statuses the transport reports to the callback of .subscribe (line 198)
ChannelStatuses == {"SUBSCRIBED", "CHANNEL_ERROR", "TIMED_OUT"}
ErrorStatuses == {"CHANNEL_ERROR", "TIMED_OUT"}

SubscribeStatusMut(status) ==
  /\ organizationsChannelRef # NULL
  /\ liveChannels[organizationsChannelRef] > 0
  /\ status # channelStatus
  /\ channelStatus' = status
  /\ liveChannels' = IF status \in ErrorStatuses
                     THEN [liveChannels EXCEPT ![organizationsChannelRef] = @ + 1]
                     ELSE liveChannels
  /\ last' = Label("subscribe", status, organizationsChannelRef)
  /\ UNCHANGED <<authVars, storeVars, organizationsChannelRef, fuo,
                 fao, organizationsLoading, pushEvents, session, user,
                 beneficiary, userOrganizations, allOrganizations, loading,
                 initPc, fb, si, so, joins, unf, su, used>>

\* lines 198-206: the transport reports a status of the referenced channel and
\* the callback runs; every branch of the callback is empty
SubscribeStatus(status) ==
  /\ organizationsChannelRef # NULL
  /\ liveChannels[organizationsChannelRef] > 0
  /\ status # channelStatus
  /\ channelStatus' = status
  /\ last' = Label("subscribe", status, organizationsChannelRef)
  /\ UNCHANGED <<authVars, storeVars, organizationsChannelRef, liveChannels, fuo,
                 fao, organizationsLoading, pushEvents, session, user,
                 beneficiary, userOrganizations, allOrganizations, loading,
                 initPc, fb, si, so, joins, unf, su, used>>

(* -------------------------------------------------------- initializeAuth *)
StartFetchBeneficiary(authUserId) ==
  /\ BagCardinality(fb) < MaxFB
  /\ fb' = fb (+) SetToBag({[uid |-> authUserId, pc |-> "query"]})

\* lines 101-119: getSession() answered before the 10 s timer
GetSessionResolve ==
  /\ initPc = "getSession"
  /\ initPc' = "done"
  /\ session' = authSession
  /\ user' = authSession
  /\ IF authSession # NULL
     THEN StartFetchBeneficiary(authSession) /\ UNCHANGED loading
     ELSE loading' = FALSE /\ UNCHANGED fb
  /\ last' = Label("initializeAuth", authSession, "session")
  /\ UNCHANGED <<authVars, storeVars, effectVars, beneficiary, userOrganizations,
                 allOrganizations, si, so, joins, unf, su, used>>

InitCatchMut ==
  /\ session' = NULL
  /\ user' = NULL
  /\ SetBeneficiary(NoBeneficiary)
  /\ UNCHANGED loading

\* lines 120-127: the timer fired first, or getSession() rejected
InitCatch ==
  /\ session' = NULL
  /\ user' = NULL
  /\ SetBeneficiary(NoBeneficiary)
  /\ loading' = FALSE

GetSessionTimeout ==
  /\ initPc = "getSession"
  /\ initPc' = "done"
  /\ InitCatch
  /\ last' = Label("initializeAuth", NULL, "timeout")
  /\ UNCHANGED <<authVars, storeVars, userOrganizations, allOrganizations, fb, si,
                 so, joins, unf, su, used>>

OnAuthStateChangeMut ==
  /\ authEvents # <<>>
  /\ LET s == Head(authEvents) IN
     /\ authEvents' = Tail(authEvents)
     /\ session' = s
     /\ user' = s
     /\ IF s # NULL
        THEN /\ StartFetchBeneficiary(s)
             /\ UNCHANGED <<beneficiary, userOrganizations, loading, effectVars>>
        ELSE /\ SetBeneficiary(NoBeneficiary)
             /\ loading' = FALSE
             /\ UNCHANGED <<fb, userOrganizations>>
     /\ last' = Label("onAuthStateChange", s, "handled")
  /\ UNCHANGED <<authSession, storeVars, allOrganizations, initPc, si, so, joins,
                 unf, su, used>>

\* lines 132-144: the listener, called with the head of the queue
OnAuthStateChange ==
  /\ authEvents # <<>>
  /\ LET s == Head(authEvents) IN
     /\ authEvents' = Tail(authEvents)
     /\ session' = s
     /\ user' = s
     /\ IF s # NULL
        THEN /\ StartFetchBeneficiary(s)
             /\ UNCHANGED <<beneficiary, userOrganizations, loading, effectVars>>
        ELSE /\ SetBeneficiary(NoBeneficiary)
             /\ userOrganizations' = <<>>
             /\ loading' = FALSE
             /\ UNCHANGED fb
     /\ last' = Label("onAuthStateChange", s, "handled")
  /\ UNCHANGED <<authSession, storeVars, allOrganizations, initPc, si, so, joins,
                 unf, su, used>>

(* ------------------------------------------------------ fetchBeneficiary *)
RoleOkMut(data) == data.role # NULL

\* line 244
RoleOk(data) == data.role = FinalUser

FBFinallyMut == UNCHANGED loading

\* lines 255-257
FBFinally == loading' = FALSE

FBRemove(t) == fb' = fb (-) SetToBag({t})

\* lines 253-254: the 8 s timer fired first, or the query rejected
FBQueryReject(t) ==
  /\ t.pc = "query"
  /\ SetBeneficiary(NoBeneficiary)
  /\ FBFinally
  /\ FBRemove(t)
  /\ last' = Label("fetchBeneficiary", t.uid, "reject")
  /\ UNCHANGED <<authVars, storeVars, session, user, userOrganizations,
                 allOrganizations, initPc, si, so, joins, unf, su, used>>

\* lines 234-252: the query answered with r
FBQueryAnswer(t, r) ==
  /\ t.pc = "query"
  /\ IF r.error
     THEN /\ fb' = (fb (-) SetToBag({t})) (+) SetToBag({[t EXCEPT !.pc = "signOut240"]})
          /\ last' = Label("fetchBeneficiary.query", t.uid, "error")
          /\ UNCHANGED <<beneficiary, loading, effectVars>>
     ELSE IF ~RoleOk(r.data)
     THEN /\ fb' = (fb (-) SetToBag({t})) (+) SetToBag({[t EXCEPT !.pc = "signOut245"]})
          /\ last' = Label("fetchBeneficiary.query", t.uid, "role")
          /\ UNCHANGED <<beneficiary, loading, effectVars>>
     ELSE /\ SetBeneficiary(r.data)
          /\ FBFinally
          /\ FBRemove(t)
          /\ last' = Label("fetchBeneficiary", t.uid, "stored")
  /\ UNCHANGED <<authVars, storeVars, session, user, userOrganizations,
                 allOrganizations, initPc, si, so, joins, unf, su, used>>

\* auth.signOut() as the auth subsystem performs it: the session is dropped and
\* the listener is notified
AuthSignOut ==
  /\ authSession' = NULL
  /\ authEvents' = Append(authEvents, NULL)

\* lines 240-241 and 245-246: supabase.auth.signOut() answered
FBSignOutDone(t) ==
  /\ t.pc \in {"signOut240", "signOut245"}
  /\ AuthSignOut
  /\ SetBeneficiary(NoBeneficiary)
  /\ FBFinally
  /\ FBRemove(t)
  /\ last' = Label("fetchBeneficiary", t.uid,
                   IF t.pc = "signOut240" THEN "error" ELSE "role")
  /\ UNCHANGED <<storeVars, session, user, userOrganizations, allOrganizations,
                 initPc, si, so, joins, unf, su, used>>

FetchBeneficiaryStep ==
  \E t \in BagToSet(fb) :
     \/ FBQueryReject(t)
     \/ \E r \in {QueryBeneficiary(t.uid), QueryFault} : FBQueryAnswer(t, r)
     \/ FBSignOutDone(t)

\* lines 386-390
RefreshBeneficiary ==
  /\ used.calls < MaxCalls
  /\ user # NULL
  /\ StartFetchBeneficiary(user)
  /\ used' = [used EXCEPT !.calls = @ + 1]
  /\ last' = Label("refreshBeneficiary", user, "called")
  /\ UNCHANGED <<authVars, storeVars, effectVars, session, user, beneficiary,
                 userOrganizations, allOrganizations, loading, initPc, si, so,
                 joins, unf, su>>

(* ---------------------------------------------------------------- signOut *)
TotalLive(live) == live["b1"] + live["b2"] + live["b4"]

SignOutCloseLiveMut == liveChannels

\* lines 394-397
SignOutCloseLive ==
  IF organizationsChannelRef # NULL
  THEN RemoveChannel(liveChannels, organizationsChannelRef)
  ELSE liveChannels

\* lines 393-398, up to the await
SignOutCall ==
  /\ used.calls < MaxCalls
  /\ so.pc = "idle"
  /\ initPc = "done"
  /\ liveChannels' = SignOutCloseLive
  /\ organizationsChannelRef' = NULL
  /\ channelStatus' = "none"
  /\ pushEvents' = DropEvents(pushEvents, SignOutCloseLive)
  /\ so' = [pc |-> "sent", closed |-> organizationsChannelRef # NULL]
  /\ used' = [used EXCEPT !.calls = @ + 1]
  /\ last' = Label("signOut.call", NULL, "sent")
  /\ UNCHANGED <<authVars, storeVars, session, user, beneficiary, userOrganizations,
                 allOrganizations, loading, organizationsLoading, initPc, fb, si,
                 joins, fuo, fao, unf, su>>

\* the auth subsystem performs the sign-out asked for at line 398
SignOutAuth ==
  /\ so.pc = "sent"
  /\ AuthSignOut
  /\ so' = [so EXCEPT !.pc = "acked"]
  /\ last' = Label("signOut.auth", NULL, "invalidated")
  /\ UNCHANGED <<storeVars, effectVars, session, user, beneficiary,
                 userOrganizations, allOrganizations, loading, initPc, fb, si,
                 joins, unf, su, used>>

\* lines 399-400
SignOutResume ==
  /\ so.pc = "acked"
  /\ SetBeneficiary(NoBeneficiary)
  /\ userOrganizations' = <<>>
  /\ so' = [so EXCEPT !.pc = "idle"]
  /\ last' = Label("signOut", NULL, "done")
  /\ UNCHANGED <<authVars, storeVars, session, user, allOrganizations, loading,
                 initPc, fb, si, joins, unf, su, used>>

\* line 398 when supabase.auth.signOut() rejects: signOut has no try block, the
\* rejection leaves it and lines 399-400 are not reached
SignOutAuthThrow ==
  /\ so.pc = "sent"
  /\ so' = [so EXCEPT !.pc = "idle"]
  /\ last' = Label("signOut", NULL, "threw")
  /\ UNCHANGED <<authVars, storeVars, effectVars, session, user, beneficiary,
                 userOrganizations, allOrganizations, loading, initPc, fb, si,
                 joins, unf, su, used>>

(* ----------------------------------------------------------------- signIn *)
\* line 262: signIn(email, password) called with the credentials of uid
SignInCall(uid) ==
  /\ used.calls < MaxCalls
  /\ si.pc = "idle"
  /\ initPc = "done"
  /\ si' = [pc |-> "grant", uid |-> uid]
  /\ used' = [used EXCEPT !.calls = @ + 1]
  /\ last' = Label("signIn.call", uid, "sent")
  /\ UNCHANGED <<authVars, storeVars, effectVars, session, user, beneficiary,
                 userOrganizations, allOrganizations, loading, initPc, fb, so,
                 joins, unf, su>>

\* lines 267-277: signInWithPassword answered; granted, the auth subsystem holds
\* the new session and notifies the listener
SignInGrant(granted) ==
  /\ si.pc = "grant"
  /\ IF granted
     THEN /\ authSession' = si.uid
          /\ authEvents' = Append(authEvents, si.uid)
          /\ si' = [si EXCEPT !.pc = "verify"]
          /\ last' = Label("signIn.grant", si.uid, "granted")
     ELSE /\ si' = [si EXCEPT !.pc = "idle"]
          /\ last' = Label("signIn", si.uid, "grantError")
          /\ UNCHANGED authVars
  /\ UNCHANGED <<storeVars, effectVars, session, user, beneficiary,
                 userOrganizations, allOrganizations, loading, initPc, fb, so,
                 joins, unf, su, used>>

\* lines 279-291: the verification query answered with r
SignInVerify(r) ==
  /\ si.pc = "verify"
  /\ IF r.error
     THEN /\ si' = [si EXCEPT !.pc = "signOut280"]
          /\ last' = Label("signIn.verify", si.uid, "error")
     ELSE IF ~RoleOk(r.data)
     THEN /\ si' = [si EXCEPT !.pc = "signOut286"]
          /\ last' = Label("signIn.verify", si.uid, "role")
     ELSE /\ si' = [si EXCEPT !.pc = "idle"]
          /\ last' = Label("signIn", si.uid, "ok")
  /\ UNCHANGED <<authVars, storeVars, effectVars, session, user, beneficiary,
                 userOrganizations, allOrganizations, loading, initPc, fb, so,
                 joins, unf, su, used>>

\* lines 292-294: the verification query rejected
SignInCatch ==
  /\ si.pc = "verify"
  /\ si' = [si EXCEPT !.pc = "idle"]
  /\ last' = Label("signIn", si.uid, "exception")
  /\ UNCHANGED <<authVars, storeVars, effectVars, session, user, beneficiary,
                 userOrganizations, allOrganizations, loading, initPc, fb, so,
                 joins, unf, su, used>>

SignInSignOutDoneMut ==
  /\ si.pc \in {"signOut280", "signOut286"}
  /\ si' = [si EXCEPT !.pc = "idle"]
  /\ last' = Label("signIn", si.uid, "domainError")
  /\ UNCHANGED <<authVars, storeVars, effectVars, session, user, beneficiary,
                 userOrganizations, allOrganizations, loading, initPc, fb, so,
                 joins, unf, su, used>>

\* lines 280-281 and 286-287: supabase.auth.signOut() answered
SignInSignOutDone ==
  /\ si.pc \in {"signOut280", "signOut286"}
  /\ AuthSignOut
  /\ si' = [si EXCEPT !.pc = "idle"]
  /\ last' = Label("signIn", si.uid, "domainError")
  /\ UNCHANGED <<storeVars, effectVars, session, user, beneficiary,
                 userOrganizations, allOrganizations, loading, initPc, fb, so,
                 joins, unf, su, used>>

SignInStep ==
  \/ \E uid \in Users : SignInCall(uid)
  \/ \E granted \in BOOLEAN : SignInGrant(granted)
  \/ \E r \in {QueryBeneficiary(si.uid), QueryFault} : SignInVerify(r)
  \/ SignInCatch
  \/ SignInSignOutDone

(* ------------------------------------------- fetches of the organizations *)
memberFrame == <<authSession, authEvents, session, user, beneficiary, loading,
                 initPc, fb, si, so, su>>

\* lines 53-61: the membership query answered (ok) or failed (an error result or
\* an exception); a fetch joinOrganization awaits lets it return (line 380)
FuoResp(t, ok) ==
  /\ userOrganizations' = IF ok THEN t.data ELSE userOrganizations
  /\ organizationsLoading' = FALSE
  /\ fuo' = fuo (-) SetToBag({t})
  /\ IF t.origin = "join"
     THEN /\ joins' = joins (-) SetToBag({[org |-> t.org, bid |-> t.bid,
                                            pc |-> "refetch", existing |-> t.existing]})
          /\ last' = Label("joinOrganization", t.org, "ok")
     ELSE /\ UNCHANGED joins
          /\ last' = Label("fetchUserOrganizations", t.origin,
                           IF ok THEN "ok" ELSE "error")
  /\ UNCHANGED <<memberFrame, storeVars, pushEvents, allOrganizations,
                 organizationsChannelRef, channelStatus, liveChannels, fao, unf, used>>

FetchUserOrganizationsStep ==
  \E t \in BagToSet(fuo) : \E ok \in BOOLEAN : FuoResp(t, ok)

\* lines 71-77: the catalog query answered or failed
FetchAllOrganizationsStep ==
  /\ fao > 0
  /\ fao' = fao - 1
  /\ \E ok \in BOOLEAN :
       /\ allOrganizations' = IF ok THEN Catalog ELSE allOrganizations
       /\ last' = Step
  /\ UNCHANGED <<memberFrame, storeVars, pushEvents, userOrganizations,
                 organizationsLoading, organizationsChannelRef, channelStatus,
                 liveChannels,
                 fuo, joins, unf, used>>

RefreshForMut(tbl, beneficiaryId, origin) ==
  /\ BagCardinality(fuo) < MaxFuo
  /\ fuo' = fuo (+) SetToBag({FuoTask(tbl, beneficiaryId, origin, NULL, 0)})
  /\ organizationsLoading' = TRUE
  /\ StartFetchAll

\* lines 80-87, for the beneficiary id the callback closed over
RefreshFor(tbl, beneficiaryId, origin) ==
  IF beneficiaryId # NULL
  THEN /\ BagCardinality(fuo) < MaxFuo
       /\ fuo' = fuo (+) SetToBag({FuoTask(tbl, beneficiaryId, origin, NULL, 0)})
       /\ organizationsLoading' = TRUE
       /\ StartFetchAll
  ELSE UNCHANGED <<fuo, organizationsLoading, fao>>

RefreshOrganizations ==
  /\ used.calls < MaxCalls
  /\ RefreshFor(rows, beneficiary.id, "refresh")
  /\ used' = [used EXCEPT !.calls = @ + 1]
  /\ last' = Label("refreshOrganizations", beneficiary.id,
                   IF beneficiary.id # NULL THEN "fetching" ELSE "noop")
  /\ UNCHANGED <<memberFrame, storeVars, pushEvents, userOrganizations,
                 allOrganizations, organizationsChannelRef, channelStatus,
                 liveChannels, joins,
                 unf>>

(* ----------------------------------------------------------------- signUp *)
\* the frame of the steps of signUp: they write no state of the provider
signUpFrame == <<authVars, storeVars, effectVars, session, user, beneficiary,
                 userOrganizations, allOrganizations, loading, initPc, fb, si,
                 so, joins, unf>>

\* lines 297-316: signUp(email, password, userData) called for the identity uid
SignUpCall(uid) ==
  /\ used.calls < MaxCalls
  /\ su.pc = "idle"
  /\ ~su.identity
  /\ su' = [su EXCEPT !.pc = "signUp", !.uid = uid]
  /\ used' = [used EXCEPT !.calls = @ + 1]
  /\ last' = Label("signUp.call", uid, "sent")
  /\ UNCHANGED signUpFrame

\* The answers of supabase.auth.signUp (line 304): the identity is created and
\* the answer carries it, the sign-up is refused with an error, or the answer
\* carries neither an error nor a user.
SignUpAnswers == {"accepted", "refused", "empty"}

\* supabase.auth.signUp as the auth subsystem performs it, with the metadata of
\* lines 308-313
SignUpAuth(answer) ==
  /\ su.pc = "signUp"
  /\ su' = [su EXCEPT !.pc = answer, !.identity = (answer = "accepted")]
  /\ last' = Step
  /\ UNCHANGED <<signUpFrame, used>>

\* The trigger of the database creates the beneficiary row of a new identity
\* (the comments of lines 303 and 326); the client takes no part in it.
ProfileTrigger ==
  /\ su.identity
  /\ ~su.profile
  /\ su' = [su EXCEPT !.profile = TRUE]
  /\ last' = Step
  /\ UNCHANGED <<signUpFrame, used>>

\* lines 318-327: the result of signUp for each answer
SignUpResult(answer) ==
  CASE answer = "refused" -> "authError"
    [] answer = "empty" -> "noUser"
    [] OTHER -> "ok"

SignUpResumeMut ==
  /\ su.pc \in SignUpAnswers
  /\ su' = [su EXCEPT !.pc = "idle", !.profile = (su.pc = "accepted")]
  /\ last' = Label("signUp", su.uid, SignUpResult(su.pc))
  /\ UNCHANGED <<signUpFrame, used>>

\* lines 318-327: the answer of supabase.auth.signUp is handled
SignUpResume ==
  /\ su.pc \in SignUpAnswers
  /\ su' = [su EXCEPT !.pc = "idle"]
  /\ last' = Label("signUp", su.uid, SignUpResult(su.pc))
  /\ UNCHANGED <<signUpFrame, used>>

\* lines 328-330: supabase.auth.signUp rejected, no answer was received
SignUpCatch ==
  /\ su.pc = "signUp"
  /\ su' = [su EXCEPT !.pc = "idle"]
  /\ last' = Label("signUp", su.uid, "exception")
  /\ UNCHANGED <<signUpFrame, used>>

SignUpStep ==
  \/ \E uid \in NewUsers : SignUpCall(uid)
  \/ \E answer \in SignUpAnswers : SignUpAuth(answer)
  \/ SignUpResume
  \/ SignUpCatch

(* ------------------------------------------------------- joinOrganization *)
JoinNotAuthenticatedMut(o) ==
  /\ used.calls < MaxCalls
  /\ beneficiary.id = NULL
  /\ joins' = joins (+) SetToBag({[org |-> o, bid |-> beneficiary.id,
                                   pc |-> "lookup", existing |-> 0]})
  /\ used' = [used EXCEPT !.calls = @ + 1, !.join = @ + 1]
  /\ last' = Label("joinOrganization", o, "notAuthenticated")
  /\ UNCHANGED <<memberFrame, storeVars, effectVars, userOrganizations,
                 allOrganizations, unf>>

\* lines 334-336
JoinNotAuthenticated(o) ==
  /\ used.calls < MaxCalls
  /\ beneficiary.id = NULL
  /\ used' = [used EXCEPT !.calls = @ + 1, !.join = @ + 1]
  /\ last' = Label("joinOrganization", o, "notAuthenticated")
  /\ UNCHANGED <<memberFrame, storeVars, effectVars, userOrganizations,
                 allOrganizations, joins, unf>>

\* lines 338-345, up to the await of the lookup
JoinCall(o) ==
  /\ used.calls < MaxCalls
  /\ beneficiary.id # NULL
  /\ joins' = joins (+) SetToBag({[org |-> o, bid |-> beneficiary.id,
                                   pc |-> "lookup", existing |-> 0]})
  /\ used' = [used EXCEPT !.calls = @ + 1, !.join = @ + 1]
  /\ last' = Step
  /\ UNCHANGED <<memberFrame, storeVars, effectVars, userOrganizations,
                 allOrganizations, unf>>

JoinMove(t, pc, existing) ==
  joins' = (joins (-) SetToBag({t}))
           (+) SetToBag({[t EXCEPT !.pc = pc, !.existing = existing]})

AlreadyMemberMut(tbl, found) == FALSE

\* line 348
AlreadyMember(tbl, found) == tbl[found].is_active

\* lines 340-371: the lookup answered with the row found (0: no data; the error
\* of a failed lookup is not read), and the write it leads to is issued
JoinLookupResp(t, found) ==
  /\ t.pc = "lookup"
  /\ IF found # 0
     THEN IF AlreadyMember(rows, found)
          THEN /\ joins' = joins (-) SetToBag({t})
               /\ last' = Label("joinOrganization", t.org, "already")
          ELSE /\ JoinMove(t, "update", found)
               /\ last' = Step
     ELSE /\ JoinMove(t, "insert", 0)
          /\ last' = IF Lookup(rows, t.bid, t.org) = 0 THEN Step
                     ELSE Label("joinOrganization.lookup", t.org, "failed")
  /\ UNCHANGED <<memberFrame, storeVars, effectVars, userOrganizations,
                 allOrganizations, unf, used>>

\* lines 381-383: the lookup rejected
JoinLookupReject(t) ==
  /\ t.pc = "lookup"
  /\ joins' = joins (-) SetToBag({t})
  /\ last' = Label("joinOrganization", t.org, "exception")
  /\ UNCHANGED <<memberFrame, storeVars, effectVars, userOrganizations,
                 allOrganizations, unf, used>>

\* the table after the write of lines 352-355 or 362-371
JoinWrite(t) ==
  IF t.pc = "update"
  THEN Reactivate(rows, t.existing)
  ELSE Append(rows, NewMembership(t.bid, t.org))

JoinWritten(t) == IF t.pc = "update" THEN t.existing ELSE Len(rows) + 1

\* lines 357-359 and 373-379: the write answered
JoinWriteResp(t, ok) ==
  /\ t.pc \in {"update", "insert"}
  /\ IF ok
     THEN /\ rows' = JoinWrite(t)
          /\ pushEvents' = Emit(pushEvents, liveChannels, rows', JoinWritten(t),
                                IF t.pc = "update" THEN "UPDATE" ELSE "INSERT")
          /\ BagCardinality(fuo) < MaxFuo
          /\ fuo' = fuo (+) SetToBag({FuoTask(rows', t.bid, "join", t.org,
                                                  t.existing)})
          /\ organizationsLoading' = TRUE
          /\ JoinMove(t, "refetch", t.existing)
          /\ last' = Label("joinOrganization.write", t.org, t.pc)
     ELSE /\ joins' = joins (-) SetToBag({t})
          /\ last' = Label("joinOrganization", t.org, "writeError")
          /\ UNCHANGED <<rows, pushEvents, fuo, organizationsLoading>>
  /\ UNCHANGED <<memberFrame, userOrganizations, allOrganizations,
                 organizationsChannelRef, channelStatus, liveChannels, fao, unf, used>>

(* --------------------------------------------------------- handleUnfollow *)
\* src/unnamed/part_005 lines 166-182: the membership shown is the one of the
\* list for the organization of the screen; the user confirms
UnfollowCall(k) ==
  /\ used.calls < MaxCalls
  /\ unf.pc = "idle"
  /\ unf' = [pc |-> "update", id |-> userOrganizations[k].id,
             bid |-> beneficiary.id]
  /\ used' = [used EXCEPT !.calls = @ + 1, !.unfollow = @ + 1]
  /\ last' = Step
  /\ UNCHANGED <<memberFrame, storeVars, effectVars, userOrganizations,
                 allOrganizations, joins>>

\* part_005 lines 184-192: the update answered
UnfollowResp(ok) ==
  /\ unf.pc = "update"
  /\ unf' = [unf EXCEPT !.pc = "idle"]
  /\ IF ok
     THEN /\ rows' = Deactivate(rows, unf.id)
          /\ pushEvents' = Emit(pushEvents, liveChannels, rows', unf.id, "UPDATE")
          /\ RefreshFor(rows', unf.bid, "refresh")
          /\ last' = Label("handleUnfollow", rows[unf.id].organization_id, "ok")
     ELSE /\ last' = Label("handleUnfollow", rows[unf.id].organization_id, "error")
          /\ UNCHANGED <<rows, pushEvents, fuo, organizationsLoading, fao>>
  /\ UNCHANGED <<memberFrame, userOrganizations, allOrganizations,
                 organizationsChannelRef, channelStatus, liveChannels, joins, used>>

UnfollowStep ==
  \/ \E k \in 1..Len(userOrganizations) : UnfollowCall(k)
  \/ \E ok \in BOOLEAN : UnfollowResp(ok)

(* ------------------------------------- changes the backend makes by itself *)
\* Points accrued at a purchase: the counters and updated_at move together.
Accrue(tbl, i) ==
  [tbl EXCEPT ![i].available_points = @ + 1, ![i].total_points_earned = @ + 1,
              ![i].updated_at = @ + 1]

\* Points redeemed
Redeem(tbl, i) ==
  [tbl EXCEPT ![i].available_points = @ - 1, ![i].total_points_redeemed = @ + 1,
              ![i].updated_at = @ + 1]

ExternUpdate(i) ==
  /\ used.calls < MaxCalls
  /\ ~rows[i].deleted
  /\ \E kind \in {"accrue", "redeem", "deactivate"} :
       /\ kind = "redeem" => rows[i].available_points > 0
       /\ rows' = CASE kind = "accrue" -> Accrue(rows, i)
                    [] kind = "redeem" -> Redeem(rows, i)
                    [] OTHER -> Deactivate(rows, i)
       /\ last' = Step
  /\ pushEvents' = Emit(pushEvents, liveChannels, rows', i, "UPDATE")
  /\ used' = [used EXCEPT !.calls = @ + 1, !.extern = @ + 1]
  /\ UNCHANGED <<memberFrame, userOrganizations, allOrganizations,
                 organizationsLoading, organizationsChannelRef, channelStatus,
                 liveChannels,
                 fuo, fao, joins, unf>>

ExternDelete(i) ==
  /\ used.calls < MaxCalls
  /\ ~rows[i].deleted
  /\ rows' = [rows EXCEPT ![i].deleted = TRUE]
  /\ pushEvents' = Emit(pushEvents, liveChannels, rows', i, "DELETE")
  /\ used' = [used EXCEPT !.calls = @ + 1, !.extern = @ + 1]
  /\ last' = Step
  /\ UNCHANGED <<memberFrame, userOrganizations, allOrganizations,
                 organizationsLoading, organizationsChannelRef, channelStatus,
                 liveChannels,
                 fuo, fao, joins, unf>>

BackendStep == \E i \in 1..Len(rows) : ExternUpdate(i) \/ ExternDelete(i)

(* ----------------------------------------------- postgres_changes handler *)
PatchCountersMut(prev, new) ==
  [k \in 1..Len(prev) |->
     IF prev[k].id = new.id THEN [new EXCEPT !.id = prev[k].id] ELSE prev[k]]

\* lines 178-190
PatchCounters(prev, new) ==
  [k \in 1..Len(prev) |->
     IF prev[k].id = new.id
     THEN [prev[k] EXCEPT !.available_points = new.available_points,
                          !.total_points_earned = new.total_points_earned,
                          !.total_points_redeemed = new.total_points_redeemed,
                          !.updated_at = new.updated_at]
     ELSE prev[k]]

\* line 175
IsUpdate(e) == e.eventType = "UPDATE"

\* lines 173-196: the handler of the channel, called with the head of the queue
PushDeliver ==
  /\ pushEvents # <<>>
  /\ LET e == Head(pushEvents) IN
     /\ pushEvents' = Tail(pushEvents)
     /\ IF IsUpdate(e)
        THEN /\ userOrganizations' = PatchCounters(userOrganizations, e.new)
             /\ UNCHANGED <<fuo, organizationsLoading>>
        ELSE /\ BagCardinality(fuo) < MaxFuo
             /\ fuo' = fuo (+) SetToBag({FuoTask(rows, e.ch, "push", NULL, 0)})
             /\ organizationsLoading' = TRUE
             /\ UNCHANGED userOrganizations
     /\ last' = Label("push", e.eventType, e.ch)
  /\ UNCHANGED <<memberFrame, storeVars, allOrganizations,
                 organizationsChannelRef, channelStatus, liveChannels, fao, joins,
                 unf, used>>

(* ------------------------------------------------------------------ Init *)
\* Rows the store may hold when the app starts: memberships of b1 from earlier
\* sessions, and one of another profile.
Row(b, o, avail, earned, redeemed, active) ==
  [beneficiary_id |-> b, organization_id |-> o, available_points |-> avail,
   total_points_earned |-> earned, total_points_redeemed |-> redeemed,
   is_active |-> active, updated_at |-> 0, deleted |-> FALSE]

InitialTables ==
  { <<>>,
    <<Row("b2", "o1", 0, 0, 0, TRUE), Row("b1", "o1", 1, 2, 1, TRUE)>>,
    <<Row("b1", "o1", 1, 2, 1, TRUE), Row("b1", "o2", 0, 0, 0, TRUE)>> }

\* Tables with no row for (b1, o1)
TablesWithoutRow ==
  { <<>>,
    <<Row("b2", "o1", 0, 0, 0, TRUE)>>,
    <<Row("b1", "o2", 1, 1, 0, TRUE)>> }

\* The table of the runs that exercise sign-in and sign-out
StoredTable == <<Row("b2", "o1", 0, 0, 0, TRUE), Row("b1", "o1", 1, 2, 1, TRUE)>>

\* The state after construction (lines 26-32), for the session the device may
\* have stored and the table of the backend
InitWith(stored, tables) ==
  /\ authSession \in stored
  /\ authEvents = <<authSession>>
  /\ rows \in tables
  /\ pushEvents = <<>>
  /\ session = NULL
  /\ user = NULL
  /\ beneficiary = NoBeneficiary
  /\ userOrganizations = <<>>
  /\ allOrganizations = <<>>
  /\ loading = TRUE
  /\ organizationsLoading = FALSE
  /\ organizationsChannelRef = NULL
  /\ channelStatus = "none"
  /\ liveChannels = [b \in ProfileIds |-> 0]
  /\ initPc = "getSession"
  /\ fb = EmptyBag
  /\ si = [pc |-> "idle", uid |-> NULL]
  /\ so = [pc |-> "idle", closed |-> FALSE]
  /\ joins = EmptyBag
  /\ fuo = EmptyBag
  /\ fao = 0
  /\ unf = [pc |-> "idle", id |-> 0, bid |-> NULL]
  /\ su = NoSignUp
  /\ used = [calls |-> 0, join |-> 0, unfollow |-> 0, extern |-> 0]
  /\ last = Label("init", NULL, "none")

Init == InitWith(Users \cup {NULL}, {StoredTable})

Next ==
  \/ GetSessionResolve
  \/ GetSessionTimeout
  \/ OnAuthStateChange
  \/ FetchBeneficiaryStep
  \/ RefreshBeneficiary
  \/ SignOutCall
  \/ SignOutAuth
  \/ SignOutResume
  \/ SignInStep
  \/ FetchUserOrganizationsStep
  \/ \E o \in JoinOrgs : JoinNotAuthenticated(o)

Spec == Init /\ [][Next]_vars

(* ------------------------------------------------- the membership flows *)
\* The state right after startup with the stored session of u1: the profile has
\* been stored, the effect has opened the channel and issued its two fetches.
InitAfterStartup(tables) ==
  /\ authSession = "u1"
  /\ authEvents = <<>>
  /\ rows \in tables
  /\ pushEvents = <<>>
  /\ session = "u1"
  /\ user = "u1"
  /\ beneficiary = QueryBeneficiary("u1").data
  /\ userOrganizations = <<>>
  /\ allOrganizations = <<>>
  /\ loading = FALSE
  /\ organizationsLoading = TRUE
  /\ organizationsChannelRef = "b1"
  /\ channelStatus = "SUBSCRIBING"
  /\ liveChannels = [b \in ProfileIds |-> IF b = "b1" THEN 1 ELSE 0]
  /\ initPc = "done"
  /\ fb = EmptyBag
  /\ si = [pc |-> "idle", uid |-> NULL]
  /\ so = [pc |-> "idle", closed |-> FALSE]
  /\ joins = EmptyBag
  /\ fuo = SetToBag({FuoTask(rows, "b1", "effect", NULL, 0)})
  /\ fao = 1
  /\ unf = [pc |-> "idle", id |-> 0, bid |-> NULL]
  /\ su = NoSignUp
  /\ used = [calls |-> 0, join |-> 0, unfollow |-> 0, extern |-> 0]
  /\ last = Label("fetchBeneficiary", "u1", "stored")

InitMember == InitAfterStartup(InitialTables)

NextMember ==
  \/ FetchUserOrganizationsStep
  \/ \E o \in JoinOrgs : JoinCall(o)
  \/ \E t \in BagToSet(joins) :
       \/ \E found \in {Lookup(rows, t.bid, t.org), 0} : JoinLookupResp(t, found)
       \/ \E ok \in BOOLEAN : JoinWriteResp(t, ok)
  \/ UnfollowStep
  \/ BackendStep
  \/ PushDeliver

SpecMember == InitMember /\ [][NextMember]_vars

\* joinOrganization called again only after the call before it has returned, with
\* a store that answers every request.
InitJoinTwice == InitAfterStartup(TablesWithoutRow)

NextJoinTwice ==
  \/ FetchUserOrganizationsStep
  \/ FetchAllOrganizationsStep
  \/ RefreshOrganizations
  \/ \E o \in JoinOrgs : joins = EmptyBag /\ JoinCall(o)
  \/ \E t \in BagToSet(joins) :
       \/ JoinLookupResp(t, Lookup(rows, t.bid, t.org))
       \/ JoinWriteResp(t, TRUE)
  \/ PushDeliver

SpecJoinTwice == InitJoinTwice /\ [][NextJoinTwice]_vars

(***************************************************************************)
(* The claims                                                              *)
(***************************************************************************)

\* C1: every execution of signOut() removes the referenced channel in the step
\* that issues the sign-out request (so no channel is live when the request goes
\* out, and session, profile and list are still untouched), the auth subsystem
\* invalidates the session only after that, and the profile and the membership
\* list are cleared only after the invalidation.
C1_SignOutOrder ==
  [][ /\ (so.pc = "idle" /\ so'.pc # "idle") =>
           /\ so'.pc = "sent"
           /\ TotalLive(liveChannels') = 0
           /\ organizationsChannelRef' = NULL
           /\ authSession' = authSession
           /\ beneficiary' = beneficiary
           /\ userOrganizations' = userOrganizations
      /\ (so.pc = "sent" /\ so'.pc # "sent") =>
           /\ so'.pc = "acked"
           /\ authSession' = NULL
           /\ beneficiary' = beneficiary
           /\ userOrganizations' = userOrganizations
      /\ (so.pc = "acked" /\ so'.pc # "acked") =>
           /\ so'.pc = "idle"
           /\ beneficiary' = NoBeneficiary
           /\ userOrganizations' = <<>> ]_vars

\* signOut() has run to its end and had a live channel to remove.
C1_Witness ==
  /\ last = Label("signOut", NULL, "done")
  /\ so.closed
  /\ session # NULL

HasOtherRole(authUserId) ==
  /\ ~QueryBeneficiary(authUserId).error
  /\ QueryBeneficiary(authUserId).data.role # FinalUser

\* C2: when fetchBeneficiary has completed after its query answered with a row
\* whose role is not 'final_user', the profile state is empty and the auth
\* subsystem holds no session.
C2_WrongRoleSignedOut ==
  ( /\ last.op = "fetchBeneficiary"
    /\ last.res \in {"role", "stored"}
    /\ HasOtherRole(last.arg) )
  => (beneficiary = NoBeneficiary /\ authSession = NULL)

\* A resolution for u2, whose row carries another role, has completed.
C2_Witness == last = Label("fetchBeneficiary", "u2", "role")

\* C3: whenever fetchBeneficiary has completed after its fetch failed (an error
\* result, no row, the timeout, a rejected promise), the auth subsystem has been
\* signed out and the profile state is empty.
C3_EveryFailureSignsOut ==
  (last.op = "fetchBeneficiary" /\ last.res \in {"error", "reject"})
  => (authSession = NULL /\ beneficiary = NoBeneficiary)

\* C4: whenever fetchBeneficiary has completed, on whichever path, loading is
\* false; the resolution writes loading in its last step only (a step that
\* starts a resolution or moves one on without ending it leaves loading as it
\* is), and loading, once false, is never set again.
C4_LoadingCleared ==
  /\ [](last.op = "fetchBeneficiary" => loading = FALSE)
  /\ [][ /\ last'.op = "fetchBeneficiary.query" => loading' = loading
         /\ last'.op = "fetchBeneficiary" =>
              BagCardinality(fb') = BagCardinality(fb) - 1
         /\ loading = FALSE => loading' = FALSE ]_vars

\* A resolution has completed through the catch block.
C4_Witness == last.op = "fetchBeneficiary" /\ last.res = "reject"

\* The 10 s timer of initializeAuth fires if getSession() has not answered.
NextStartup ==
  \/ GetSessionResolve
  \/ GetSessionTimeout
  \/ OnAuthStateChange
  \/ FetchBeneficiaryStep
  \/ FetchUserOrganizationsStep
  \/ SignOutCall
  \/ SignOutAuth
  \/ SignOutResume

SpecLive ==
  /\ Init
  /\ [][NextStartup]_vars
  /\ WF_vars(GetSessionResolve \/ GetSessionTimeout)

\* C5: when the session retrieval of initializeAuth has timed out or failed,
\* loading is false and session, identity and profile are empty; the wait for
\* the session always ends, and loading, once false, stays false.
C5_InitTimeoutFailsClosed ==
  /\ [](last = Label("initializeAuth", NULL, "timeout")
        => /\ loading = FALSE
           /\ session = NULL
           /\ user = NULL
           /\ beneficiary = NoBeneficiary)
  /\ [][loading = FALSE => loading' = FALSE]_vars
  /\ (initPc = "getSession") ~> (initPc = "done")

\* The retrieval timed out although the auth subsystem holds a session.
C5_Witness ==
  /\ last = Label("initializeAuth", NULL, "timeout")
  /\ authSession # NULL

ActiveRows(beneficiaryId, organizationId) ==
  {i \in 1..Len(rows) : /\ ~rows[i].deleted
                        /\ rows[i].beneficiary_id = beneficiaryId
                        /\ rows[i].organization_id = organizationId
                        /\ rows[i].is_active}

\* C6: with no membership row for the pair at first and the calls made one after
\* the other, the first joinOrganization(o) ends in success, the second in
\* 'already a member', and the table never holds two active rows for the pair.
C6_JoinTwice ==
  /\ \A o \in Orgs : Cardinality(ActiveRows("b1", o)) <= 1
  /\ last.op = "joinOrganization" =>
       /\ used.join = 1 => last.res = "ok"
       /\ used.join >= 2 => last.res = "already"

\* The second call has returned 'already a member'.
C6_Witness ==
  /\ last = Label("joinOrganization", "o1", "already")
  /\ used.join = 2
  /\ Cardinality(ActiveRows("b1", "o1")) = 1

Inactive(tbl, i) == ~tbl[i].deleted /\ ~tbl[i].is_active

\* C7: a leave that succeeds retains the row and changes nothing but its active
\* flag, to false; a join whose lookup answers with the inactive row goes on to
\* the update of that row; the write of a rejoin changes nothing in the table
\* but the active flag of that row, to true: no row is added and the counters
\* keep their values.
C7_RejoinSameRow ==
  [][ /\ (last'.op = "handleUnfollow" /\ last'.res = "ok") =>
           /\ ~rows[unf.id].deleted =>
                rows' = [rows EXCEPT ![unf.id].is_active = FALSE]
           /\ rows[unf.id].deleted => rows' = rows
      /\ \A t \in BagToSet(joins) :
           ( /\ t.pc = "lookup"
             /\ CopiesIn(t, joins') < CopiesIn(t, joins)
             /\ last'.op # "joinOrganization.lookup"
             /\ Lookup(rows, t.bid, t.org) # 0
             /\ Inactive(rows, Lookup(rows, t.bid, t.org)) )
           => LET u == [t EXCEPT !.pc = "update",
                                 !.existing = Lookup(rows, t.bid, t.org)]
              IN  CopiesIn(u, joins') = CopiesIn(u, joins) + 1
      /\ (last'.op = "joinOrganization.write" /\ last'.res = "update") =>
           \E i \in 1..Len(rows) :
             /\ rows[i].organization_id = last'.arg
             /\ rows' = IF rows[i].deleted THEN rows
                        ELSE [rows EXCEPT ![i].is_active = TRUE]
             /\ rows'[i].available_points = rows[i].available_points
             /\ rows'[i].total_points_earned = rows[i].total_points_earned
             /\ rows'[i].total_points_redeemed = rows[i].total_points_redeemed
             /\ Len(rows') = Len(rows) ]_vars

\* The profile left o1 and joined it again: the row is active and has the
\* counters it had.
C7_Witness ==
  /\ last = Label("joinOrganization.write", "o1", "update")
  /\ used.unfollow = 1
  /\ used.extern = 0
  /\ \E i \in 1..Len(rows) :
       /\ rows[i].beneficiary_id = "b1"
       /\ rows[i].organization_id = "o1"
       /\ rows[i].is_active
       /\ rows[i].total_points_earned = 2

UpdateDelivered == last'.op = "push" /\ last'.arg = "UPDATE"

OthersAndOrderKept ==
  /\ Len(userOrganizations') = Len(userOrganizations)
  /\ \A k \in 1..Len(userOrganizations) :
       /\ userOrganizations'[k].id = userOrganizations[k].id
       /\ userOrganizations[k].id # Head(pushEvents).new.id
            => userOrganizations'[k] = userOrganizations[k]

IdentityKept(k) ==
  /\ userOrganizations'[k].beneficiary_id = userOrganizations[k].beneficiary_id
  /\ userOrganizations'[k].organization_id = userOrganizations[k].organization_id
  /\ userOrganizations'[k].is_active = userOrganizations[k].is_active

\* C8 as stated: an UPDATE event for membership M leaves every other membership,
\* the set and order of the list, and every field of M that is not one of the
\* three counters unchanged.
C8_OnlyCountersChange ==
  [][ UpdateDelivered =>
        /\ OthersAndOrderKept
        /\ \A k \in 1..Len(userOrganizations) :
             /\ IdentityKept(k)
             /\ userOrganizations'[k].updated_at = userOrganizations[k].updated_at
    ]_vars

\* C8 as amended: an UPDATE event for membership M sets M's three counters and
\* M's updated_at to the values of the payload and leaves every other field of
\* M, every other membership, and the set and order of the list unchanged.
C8_CountersAndUpdatedAt ==
  [][ UpdateDelivered =>
        /\ OthersAndOrderKept
        /\ \A k \in 1..Len(userOrganizations) :
             /\ IdentityKept(k)
             /\ userOrganizations[k].id = Head(pushEvents).new.id =>
                  LET new == Head(pushEvents).new IN
                  /\ userOrganizations'[k].available_points = new.available_points
                  /\ userOrganizations'[k].total_points_earned =
                       new.total_points_earned
                  /\ userOrganizations'[k].total_points_redeemed =
                       new.total_points_redeemed
                  /\ userOrganizations'[k].updated_at = new.updated_at
    ]_vars

\* An UPDATE has been applied to a list of two memberships and one of them has
\* counters the backend changed.
C8_Witness ==
  /\ last = Label("push", "UPDATE", "b1")
  /\ Len(userOrganizations) = 2
  /\ \E k \in 1..2 : userOrganizations[k].updated_at = 1

ActiveIds(beneficiaryId) ==
  {i \in 1..Len(rows) : /\ ~rows[i].deleted
                        /\ rows[i].beneficiary_id = beneficiaryId
                        /\ rows[i].is_active}

\* the list holds the active memberships of the profile, each once, with the
\* values of the table
Consistent(list, beneficiaryId) ==
  /\ {list[k].id : k \in 1..Len(list)} = ActiveIds(beneficiaryId)
  /\ Len(list) = Cardinality(ActiveIds(beneficiaryId))
  /\ \A k \in 1..Len(list) :
       LET r == rows[list[k].id] IN
       /\ list[k].organization_id = r.organization_id
       /\ list[k].available_points = r.available_points
       /\ list[k].total_points_earned = r.total_points_earned
       /\ list[k].total_points_redeemed = r.total_points_redeemed
       /\ list[k].is_active

\* C9: the handler answers an INSERT or a DELETE event by one full fetch of the
\* memberships of the profile the channel is subscribed for, whose result is the
\* set of active memberships the table holds for that profile when the fetch is
\* made; when that fetch answers, its result becomes the list.
C9_RefetchConsistent ==
  [][ /\ (last'.op = "push" /\ last'.arg \in {"INSERT", "DELETE"}) =>
           /\ userOrganizations' = userOrganizations
           /\ \E t \in BagToSet(fuo') :
                /\ fuo' = fuo (+) SetToBag({t})
                /\ t.origin = "push"
                /\ t.bid = last'.res
                /\ t.bid = organizationsChannelRef
                /\ Consistent(t.data, t.bid)
      /\ last' = Label("fetchUserOrganizations", "push", "ok") =>
           \E t \in BagToSet(fuo) :
             /\ t.origin = "push"
             /\ fuo' = fuo (-) SetToBag({t})
             /\ userOrganizations' = t.data ]_vars

\* A re-fetch a push event started has answered and left a list with a member.
C9_Witness ==
  /\ last = Label("fetchUserOrganizations", "push", "ok")
  /\ userOrganizations # <<>>

\* C10: the table holds at most one row per (profile, organization) pair.
C10_OneRowPerPair ==
  \A i, j \in 1..Len(rows) :
    ( /\ i # j
      /\ ~rows[i].deleted
      /\ ~rows[j].deleted
      /\ rows[i].beneficiary_id = rows[j].beneficiary_id )
    => rows[i].organization_id # rows[j].organization_id
\* C11: a profile resolution commits its result only if the identity it was
\* started for is still the identity of the current session, and a membership
\* fetch commits its result only if the profile it was started for is still the
\* current profile.
C11_StaleResponsesDropped ==
  /\ last.op = "fetchBeneficiary" /\ last.res = "stored" => user = last.arg
  /\ last.op = "fetchUserOrganizations" /\ last.res = "ok" =>
       beneficiary.id # NULL
(* ------------------------------------------- two end users on one device *)
InitChannel == Init /\ authSession \in {NULL, "u1"}

NextChannel ==
  \/ GetSessionResolve
  \/ GetSessionTimeout
  \/ OnAuthStateChange
  \/ FetchBeneficiaryStep
  \/ RefreshBeneficiary
  \/ SignOutCall
  \/ SignOutAuth
  \/ SignOutResume
  \/ \E uid \in EndUsers : SignInCall(uid)
  \/ \E granted \in BOOLEAN : SignInGrant(granted)
  \/ \E r \in {QueryBeneficiary(si.uid), QueryFault} : SignInVerify(r)
  \/ SignInCatch
  \/ SignInSignOutDone
  \/ FetchUserOrganizationsStep

SpecChannel == InitChannel /\ [][NextChannel]_vars

\* C12: at most one membership push channel is live, whatever the order of
\* profile resolutions, refreshes, sign-outs and sign-ins.
C12_OneLiveChannel ==
  /\ TotalLive(liveChannels) <= 1
  /\ \A b \in ProfileIds : liveChannels[b] >= 0

\* The profile of u4 replaced a profile that had a membership fetch under way,
\* and the one live channel is the one of u4's profile.
C12_Witness ==
  /\ last = Label("fetchBeneficiary", "u4", "stored")
  /\ liveChannels["b4"] = 1
  /\ \E t \in BagToSet(fuo) : t.bid = "b1"

\* C19: when fetchBeneficiary forces a sign-out (lines 240 and 245), the auth
\* subsystem is not asked to sign out while a membership push channel is live.
C19_TeardownBeforeForcedSignOut ==
  [][ (last'.op = "fetchBeneficiary" /\ last'.res \in {"error", "role"})
      => TotalLive(liveChannels) = 0 ]_vars

NextJoinErr ==
  \/ NextMember
  \/ \E t \in BagToSet(joins) : JoinLookupReject(t)
  \/ \E o \in JoinOrgs : JoinNotAuthenticated(o)
  \/ SignOutCall
  \/ SignOutAuth
  \/ SignOutResume
  \/ OnAuthStateChange

SpecJoinErr == InitMember /\ [][NextJoinErr]_vars

JoinErrors == {"notAuthenticated", "already", "writeError", "exception"}

\* C13: the step in which joinOrganization returns an error changes neither the
\* table nor the local list and starts no fetch; the call that returns it has
\* made no write (a call that wrote is past its write and returns success); no
\* step of a call before its write changes the table or the list; and with no
\* profile present the call issues no request.
C13_JoinErrorNoChange ==
  [][ /\ (last'.op = "joinOrganization" /\ last'.res \in JoinErrors) =>
           /\ rows' = rows
           /\ userOrganizations' = userOrganizations
           /\ pushEvents' = pushEvents
           /\ fuo' = fuo
           /\ \A t \in BagToSet(joins) :
                CopiesIn(t, joins') < CopiesIn(t, joins) => t.pc # "refetch"
      /\ (last'.op = "joinOrganization" /\ last'.res = "notAuthenticated") =>
           joins' = joins
      /\ (joins' # joins /\ last'.op \notin {"joinOrganization.write",
                                               "joinOrganization"}) =>
           (rows' = rows /\ userOrganizations' = userOrganizations) ]_vars

\* A reactivation or an insert failed at the backend while the list has a member.
C13_Witness ==
  /\ last = Label("joinOrganization", "o1", "writeError")
  /\ userOrganizations # <<>>
Verified(authUserId) ==
  /\ ~QueryBeneficiary(authUserId).error
  /\ QueryBeneficiary(authUserId).data.role = FinalUser

SignInSigningOut == {"signOut280", "signOut286"}

\* C14: signIn returns the grant's error exactly from a failed grant and leaves
\* the auth session as it is; it goes on to the verification only with the
\* session granted; a verification that answers with no row, an error or
\* another role leads to a sign-out at the auth subsystem and then to the
\* domain error; and signIn returns no error only from a verification of an
\* identity whose row exists and carries the role 'final_user'.
C14_SignInOutcomes ==
  [][ /\ (last'.op = "signIn" /\ last'.res = "grantError") =>
           (si.pc = "grant" /\ authSession' = authSession)
      /\ (si'.pc = "verify" /\ si.pc # "verify") =>
           (si.pc = "grant" /\ authSession' = si.uid)
      /\ (last'.op = "signIn" /\ last'.res = "ok") =>
           (si.pc = "verify" /\ Verified(si.uid))
      /\ last'.op = "signIn.verify" =>
           (si.pc = "verify" /\ si'.pc \in SignInSigningOut)
      /\ (si.pc = "verify" /\ si' # si /\ ~Verified(si.uid)) =>
           last' # Label("signIn", si.uid, "ok")
      /\ (si.pc \in SignInSigningOut /\ si' # si) =>
           /\ last' = Label("signIn", si.uid, "domainError")
           /\ authSession' = NULL
      /\ (last'.op = "signIn" /\ last'.res = "domainError") =>
           si.pc \in SignInSigningOut ]_vars

\* signIn for u3, who has no profile row, was granted, verified, signed out and
\* has returned the domain error.
C14_Witness ==
  /\ last = Label("signIn", "u3", "domainError")
  /\ authSession = NULL
(* ------------------------------------------------- sign-up around startup *)
NextSignUp ==
  \/ NextStartup
  \/ SignUpStep
  \/ ProfileTrigger

SpecSignUp == Init /\ [][NextSignUp]_vars

\* C15: signUp returns no error exactly when the auth subsystem answered that
\* it accepted the identity, whether or not the profile row exists by then; it
\* returns an error when the identity was refused, when the answer carries no
\* user and when the call failed; and no step of signUp writes the profile row
\* or any state of the provider: only the trigger creates the row.
C15_SignUpOutcome ==
  [][ /\ last'.op = "signUp" =>
           /\ (last'.res = "ok") <=> (su.pc = "accepted")
           /\ su.pc = "accepted" => su.identity
           /\ last'.res \in {"ok", "authError", "noUser", "exception"}
           /\ last'.res # "ok" => ~su.identity
      /\ last'.op \in {"signUp", "signUp.call"} =>
           /\ su'.profile = su.profile
           /\ su'.identity = su.identity
           /\ beneficiary' = beneficiary
           /\ session' = session
           /\ user' = user
           /\ loading' = loading
           /\ rows' = rows
      /\ (su'.profile # su.profile) => last' = Step ]_vars

\* signUp has returned no error while the profile row does not exist yet.
C15_Witness ==
  /\ last = Label("signUp", "u5", "ok")
  /\ su.identity
  /\ ~su.profile
(* ------------------------------------------ refreshOrganizations at startup *)
\* Tables in which the profile b4 has no active membership: no row at all, or
\* one that was deactivated
RefreshTables ==
  { StoredTable,
    <<Row("b4", "o1", 3, 3, 0, FALSE), Row("b1", "o1", 1, 2, 1, TRUE)>> }

InitRefresh == InitWith(EndUsers \cup {NULL}, RefreshTables)

NextRefresh ==
  \/ NextStartup
  \/ RefreshOrganizations
  \/ FetchAllOrganizationsStep

SpecRefresh == InitRefresh /\ [][NextRefresh]_vars

\* the beneficiary has no active membership row
NoMemberships(beneficiaryId) ==
  \A i \in 1..Len(rows) :
    rows[i].beneficiary_id = beneficiaryId => (rows[i].deleted \/ ~rows[i].is_active)

\* C16: refreshOrganizations called with no profile issues no request and
\* changes no state; called with a profile it issues the membership fetch and
\* the catalog fetch, and when the profile has no active membership the answer
\* of that membership fetch leaves userOrganizations empty. Every fetch it
\* issued ends (answered or failed) without an outcome other than ok or error.
C16_RefreshNoop ==
  [][ /\ (last'.op = "refreshOrganizations" /\ beneficiary.id = NULL) =>
           /\ last'.res = "noop"
           /\ UNCHANGED <<effectVars, storeVars, authVars, session, user,
                          beneficiary, userOrganizations, allOrganizations,
                          loading, joins>>
      /\ (last'.op = "refreshOrganizations" /\ beneficiary.id # NULL) =>
           /\ last'.res = "fetching"
           /\ fao' = fao + 1
           /\ \E t \in BagToSet(fuo') :
                /\ t.bid = beneficiary.id
                /\ t.origin = "refresh"
                /\ fuo' = fuo (+) SetToBag({t})
           /\ UNCHANGED <<userOrganizations, beneficiary>>
      /\ (last'.op = "fetchUserOrganizations" /\ last'.arg = "refresh") =>
           /\ last'.res \in {"ok", "error"}
           /\ \A t \in BagToSet(fuo) :
                (/\ fuo' = fuo (-) SetToBag({t})
                 /\ t.origin = "refresh"
                 /\ NoMemberships(t.bid)
                 /\ last'.res = "ok") => userOrganizations' = <<>> ]_vars

\* refreshOrganizations has just returned without a profile, after startup
C16_Witness ==
  /\ last = Label("refreshOrganizations", NULL, "noop")
  /\ beneficiary = NoBeneficiary
  /\ initPc = "done"
  /\ ~loading

\* the refresh of a profile without memberships has been answered
C16_EmptyListReached ==
  /\ last = Label("fetchUserOrganizations", "refresh", "ok")
  /\ beneficiary.id = "b4"
  /\ userOrganizations = <<>>

\* lines 5-18 of src/app/(app)/_layout.tsx: AppLayout renders the protected
\* area when loading is over and both a session and a profile are present
AppShown == ~loading /\ session # NULL /\ beneficiary # NoBeneficiary

\* C17: the profile state is either empty or a row of the beneficiary table
\* whose role is 'final_user'; no row with another role is ever the stored
\* profile, a resolution for an identity whose row has another role ends with
\* the profile state empty, and so whenever the protected area is shown the
\* profile it is shown for has the role 'final_user'.
C17_OnlyFinalUserStored ==
  /\ beneficiary # NoBeneficiary =>
       (beneficiary \in BeneficiaryTable /\ beneficiary.role = FinalUser)
  /\ AppShown => beneficiary.role = FinalUser
  /\ \A r \in BeneficiaryTable : r.role # FinalUser => beneficiary # r
  /\ (last.op = "fetchBeneficiary" /\ HasOtherRole(last.arg)) => ~AppShown

\* The resolution for u2, whose row carries another role, has ended and the
\* profile state is empty.
C17_Witness ==
  /\ last = Label("fetchBeneficiary", "u2", "role")
  /\ user = "u2"
  /\ beneficiary = NoBeneficiary
  /\ ~AppShown

(* --------------------------------------- auth calls that reject (faults) *)
\* The runs of Spec, with a supabase.auth.signOut() that may also reject when
\* signOut awaits it, and with signUp
NextFault ==
  \/ Next
  \/ SignOutAuthThrow
  \/ SignUpStep

SpecFault == Init /\ [][NextFault]_vars

\* the operations the provider hands to its callers (lines 412-417)
PublicOperations ==
  {"signIn", "signUp", "signOut", "joinOrganization", "refreshOrganizations"}

\* C18: no public operation ends by raising: whenever signIn, signUp, signOut,
\* joinOrganization or refreshOrganizations has ended, it has returned (a
\* result, or nothing for the operations without one) and has not let the
\* failure of a backend call leave it as an exception.
C18_NoExceptionEscapes ==
  last.op \in PublicOperations => last.res # "threw"
\* the fetchBeneficiary tasks in flight for the identity uid
ResolutionsFor(uid) ==
  LET S == {t \in BagToSet(fb) : t.uid = uid}
  IN  BagCardinality([t \in S |-> CopiesIn(t, fb)])

\* C21: during startup (the initial session retrieval and the listener's
\* notification for that same session, no sign-in and no refreshBeneficiary)
\* at most one fetchBeneficiary task is in flight for a session.
C21_OneResolutionPerSession ==
  \A uid \in Users : ResolutionsFor(uid) <= 1
(* ------------------------------------------- the waits that a timer bounds *)
\* lines 222-237: the race of the query with the 8 s timer always ends
FBQueryEnds ==
  \E t \in BagToSet(fb) :
     \/ FBQueryReject(t)
     \/ \E r \in {QueryBeneficiary(t.uid), QueryFault} : FBQueryAnswer(t, r)

\* Startup in which the waits that race a timer end (lines 95-106, 222-237);
\* the waits without a timer (supabase.auth.signOut() at lines 240 and 245) and
\* the listener's notifications may take any time.
SpecTimers ==
  /\ Init
  /\ [][NextStartup]_vars
  /\ WF_vars(GetSessionResolve \/ GetSessionTimeout)
  /\ WF_vars(FBQueryEnds)

\* C22: when the profile query has not answered within its timeout,
\* fetchBeneficiary has ended with the profile empty, no session kept (neither
\* in the state nor at the auth subsystem) and loading false; and every
\* fetchBeneficiary task in flight ends, whatever call it awaits.
C22_BoundedFailClosed ==
  /\ [](last.op = "fetchBeneficiary" /\ last.res = "reject"
        => /\ beneficiary = NoBeneficiary
           /\ loading = FALSE
           /\ session = NULL
           /\ authSession = NULL)
  /\ \A uid \in Users : (ResolutionsFor(uid) > 0) ~> (ResolutionsFor(uid) = 0)

\* C23: whenever joinOrganization has returned success, the membership list
\* equals the active memberships the table holds for the profile and contains
\* the organization just joined.
C23_JoinSuccessListCurrent ==
  (last.op = "joinOrganization" /\ last.res = "ok") =>
    /\ Consistent(userOrganizations, "b1")
    /\ \E k \in 1..Len(userOrganizations) :
         userOrganizations[k].organization_id = last.arg
(* ------------------------------------------ the statuses of the channel *)
NextSubscribe ==
  \/ NextStartup
  \/ \E status \in ChannelStatuses : SubscribeStatus(status)
  \/ RefreshOrganizations
  \/ FetchAllOrganizationsStep

SpecSubscribe == InitRefresh /\ [][NextSubscribe]_vars

\* C24: when the subscribe callback is told CHANNEL_ERROR or TIMED_OUT, the
\* status of the subscription is that error and not SUBSCRIBED, the membership
\* list and every other state of the provider stay as they are, and the
\* provider opens no channel; a channel is opened only by a step in which the
\* profile id changes, and there is a status only while a channel is referenced.
C24_ChannelErrorKept ==
  /\ [][ /\ (last'.op = "subscribe" /\ last'.arg \in ErrorStatuses) =>
              /\ channelStatus' = last'.arg
              /\ channelStatus' # "SUBSCRIBED"
              /\ UNCHANGED <<userOrganizations, allOrganizations, liveChannels,
                             organizationsChannelRef, fuo, fao, pushEvents,
                             organizationsLoading, beneficiary, session, user,
                             loading, rows>>
         /\ (\E b \in ProfileIds : liveChannels'[b] > liveChannels[b]) =>
              /\ beneficiary'.id # beneficiary.id
              /\ channelStatus' = "SUBSCRIBING"
         /\ (channelStatus \in ErrorStatuses /\ channelStatus' = "SUBSCRIBING") =>
              beneficiary'.id # beneficiary.id ]_vars
  /\ [](channelStatus = "none" <=> organizationsChannelRef = NULL)

\* the channel of b1 has reported an error after the list had been fetched
C24_Witness ==
  /\ last = Label("subscribe", "CHANNEL_ERROR", "b1")
  /\ channelStatus = "CHANNEL_ERROR"
  /\ userOrganizations # <<>>
  /\ liveChannels["b1"] = 1
C26_LoadingWhileResolving ==
  fb # EmptyBag => loading = TRUE
(* --------------------------------------------- signOut with tasks in flight *)
\* The membership flows with signOut, the listener and the catalog fetch
NextSignedOut ==
  \/ NextJoinErr
  \/ FetchAllOrganizationsStep

SpecSignedOut == InitMember /\ [][NextSignedOut]_vars

\* no task is in flight and no notification is waiting to be handled
Quiescent ==
  /\ fb = EmptyBag
  /\ fuo = EmptyBag
  /\ fao = 0
  /\ joins = EmptyBag
  /\ unf.pc = "idle"
  /\ pushEvents = <<>>
  /\ authEvents = <<>>

\* C27: once a signOut() that closed the channel of the stored profile has
\* returned and every task has completed, with no sign-in since, the profile is
\* empty and the membership list is empty.
C27_SignedOutStaysEmpty ==
  (so.pc = "idle" /\ so.closed /\ Quiescent) =>
    (beneficiary = NoBeneficiary /\ userOrganizations = <<>>)
(* ------------------------------ the list against the table, fetches answering *)
\* The membership fetches all answer; the backend changes rows by itself and
\* the channel delivers the events.
NextEventual ==
  \/ \E t \in BagToSet(fuo) : FuoResp(t, TRUE)
  \/ BackendStep
  \/ PushDeliver
  \/ RefreshOrganizations
  \/ FetchAllOrganizationsStep

SpecEventual == InitMember /\ [][NextEventual]_vars

\* C28: once every push event has been handled and no membership fetch is in
\* flight, the membership list holds exactly the active memberships the table
\* holds for the profile, with the table's counters.
C28_EventuallyConsistent ==
  (pushEvents = <<>> /\ fuo = EmptyBag) => Consistent(userOrganizations, "b1")
\* C29: the answer of a membership fetch never puts an older version of a
\* membership into the list than the one the list holds: a response read from
\* the table earlier does not overwrite the result of a later read or of a
\* later counter patch (updated_at is the version of a row).
C29_NoStaleOverwrite ==
  [][ last'.op = "fetchUserOrganizations" =>
        \A j \in 1..Len(userOrganizations) :
          \A k \in 1..Len(userOrganizations') :
            userOrganizations[j].id = userOrganizations'[k].id =>
              userOrganizations'[k].updated_at >= userOrganizations[j].updated_at ]_vars

\* C30: organizationsLoading is true exactly while a membership fetch is in
\* flight: it is true in every state with a fetch in flight and false in every
\* state with none.
C30_OrganizationsLoadingTracksFetches ==
  organizationsLoading <=> (fuo # EmptyBag)

====
